---- MODULE Spec2Model ----
(***************************************************************************)
(* MarkupTokenizer (src/lib/index.ts): a streaming lexer that turns a byte *)
(* stream of markup into ["text" | "open" | "close", bytes] tokens.        *)
(*                                                                         *)
(* Bytes are their character codes.  Buffer indices are 0-based as in the  *)
(* source; At and subarray translate them to TLA+ sequences.               *)
(***************************************************************************)
EXTENDS Integers, Sequences, FiniteSets, TLC

(***************************************************************************)
(* CharCode (src/lib/index.ts:3-15)                                        *)
(***************************************************************************)
LT == 60
GT == 62
SLASH == 47
DQUOTE == 34
SQUOTE == 39
EQUAL == 61
SPACE == 32
TAB == 9
LF == 10
FF == 12
CR == 13

\* What JavaScript yields for an index outside a buffer, or for a property
\* that is not there: a value that is equal to no byte.
Undefined == -1

(***************************************************************************)
(* The raw-mode patterns.  The source compares rawEndPattern with the      *)
(* pattern objects by identity (===), so a pattern is modelled by its      *)
(* name and PatternBytes gives its contents.                               *)
(***************************************************************************)
END_SCRIPT == <<60, 47, 115, 99, 114, 105, 112, 116>>
END_STYLE == <<60, 47, 115, 116, 121, 108, 101>>
END_TITLE == <<60, 47, 116, 105, 116, 108, 101>>
COMMENT_START == <<60, 33, 45, 45>>
COMMENT_END == <<45, 45, 62>>
CDATA_START == <<60, 33, 91, 67, 68, 65, 84, 65, 91>>
CDATA_END == <<93, 93, 62>>

\* RAW_TAG_PATTERNS is an object literal, so a lookup also answers for the
\* names it inherits from Object.prototype.  The tag name is lower-cased and
\* holds only letters, digits, '-', '!', '[' and ']', so the only inherited
\* name it can spell is "constructor", whose value is the function Object:
\* truthy, of length 1, and with no element at index 0.
ObjectFunction == <<Undefined>>

PatternBytes(p) ==
  CASE p = "END_SCRIPT" -> END_SCRIPT
    [] p = "END_STYLE" -> END_STYLE
    [] p = "END_TITLE" -> END_TITLE
    [] p = "COMMENT_START" -> COMMENT_START
    [] p = "COMMENT_END" -> COMMENT_END
    [] p = "CDATA_START" -> CDATA_START
    [] p = "CDATA_END" -> CDATA_END
    [] p = "Object" -> ObjectFunction

NameScript == <<115, 99, 114, 105, 112, 116>>
NameStyle == <<115, 116, 121, 108, 101>>
NameTitle == <<116, 105, 116, 108, 101>>
NameConstructor == <<99, 111, 110, 115, 116, 114, 117, 99, 116, 111, 114>>

RAW_TAG_PATTERNS(tagName) ==
  CASE tagName = NameScript -> "END_SCRIPT"
    [] tagName = NameStyle -> "END_STYLE"
    [] tagName = NameTitle -> "END_TITLE"
    [] tagName = NameConstructor -> "Object"
    [] OTHER -> "null"

(***************************************************************************)
(* Buffers                                                                 *)
(***************************************************************************)
Min(a, b) == IF a < b THEN a ELSE b
Max(a, b) == IF a > b THEN a ELSE b

\* buffer[i]
At(buffer, i) == IF i >= 0 /\ i < Len(buffer) THEN buffer[i + 1] ELSE Undefined

\* An index of subarray: a negative one counts from the end; both are clamped.
Clamp(buffer, k) == IF k < 0 THEN Max(Len(buffer) + k, 0) ELSE Min(k, Len(buffer))

\* buffer.subarray(start, end)
subarray(buffer, start, end) ==
  SubSeq(buffer, Clamp(buffer, start) + 1, Clamp(buffer, end))

RECURSIVE Concat(_)
\* Buffer.concat(list)
Concat(list) == IF list = <<>> THEN <<>> ELSE Head(list) \o Concat(Tail(list))

(***************************************************************************)
(* Helpers (src/lib/index.ts:52-72)                                        *)
(***************************************************************************)
isWhitespace(byte) ==
  byte = SPACE \/ byte = TAB \/ byte = LF \/ byte = FF \/ byte = CR

\* A comparison that forgets to fold the letter case.
toLowerCaseNone(byte) == byte

toLowerCase(byte) == IF byte >= 65 /\ byte <= 90 THEN byte + 32 ELSE byte

\* A comparison of the last byte alone.
compareLastByte(last, pattern) ==
  Len(last) >= 1 /\ toLowerCase(At(last, Len(last) - 1)) = toLowerCase(At(pattern, Len(pattern) - 1))

RECURSIVE compareLoop(_, _, _, _)
compareLoop(last, pattern, i, j) ==
  IF ~(i >= 0 /\ j >= 0) THEN TRUE
  ELSE IF toLowerCase(At(last, i)) # toLowerCase(At(pattern, j)) THEN FALSE
  ELSE compareLoop(last, pattern, i - 1, j - 1)

compareBuffers(last, pattern) ==
  IF Len(last) < Len(pattern) THEN FALSE
  ELSE compareLoop(last, pattern, Len(last) - 1, Len(pattern) - 1)

(***************************************************************************)
(* The tokenizer instance: a record of the fields of MarkupTokenizer, plus *)
(* out, the tokens pushed downstream, and ended, the stream-end signal.    *)
(* A null pendingBuffer is the empty sequence: a stashed buffer always     *)
(* holds at least its trailing '<'.  callbacks counts the invocations of   *)
(* the completion callback of the call in progress, or of the last call.   *)
(***************************************************************************)
NewTokenizer ==
  [state |-> "text",
   tagState |-> "null",
   quoteState |-> "None",
   rawEndPattern |-> "null",
   buffers |-> <<>>,
   lastBytes |-> <<>>,
   pendingBuffer |-> <<>>,
   pendingOffset |-> 0,
   fromRawMode |-> FALSE,
   out |-> <<>>,
   ended |-> FALSE,
   callbacks |-> 0]

pushToken(c, tokenType, buffer) ==
  [c EXCEPT !.out = Append(@, [kind |-> tokenType, bytes |-> buffer])]

pushState(c, tokenType) ==
  IF Len(c.buffers) = 0 THEN c
  ELSE pushToken([c EXCEPT !.buffers = <<>>], tokenType, Concat(c.buffers))

RECURSIVE getByteAtFrom(_, _, _)
getByteAtFrom(buffers, index, offset) ==
  IF buffers = <<>> THEN Undefined
  ELSE IF offset + Len(Head(buffers)) > index THEN At(Head(buffers), index - offset)
  ELSE getByteAtFrom(Tail(buffers), index, offset + Len(Head(buffers)))

getByteAt(c, index) == getByteAtFrom(c.buffers, index, 0)

isTagNameByte(byte) ==
  \/ (byte >= 65 /\ byte <= 90)
  \/ (byte >= 97 /\ byte <= 122)
  \/ (byte >= 48 /\ byte <= 57)
  \/ byte = 45
  \/ byte = 33
  \/ byte = 91
  \/ byte = 93

RECURSIVE getTagNameLoop(_, _, _, _)
\* The two nested loops of getTagName: buffers from the current one on, k the
\* index in the current buffer.  The result is lower-cased.
getTagNameLoop(buffers, k, skipFirst, tagName) ==
  IF buffers = <<>> THEN tagName
  ELSE IF k >= Len(Head(buffers)) THEN getTagNameLoop(Tail(buffers), 0, skipFirst, tagName)
  ELSE IF skipFirst /\ k = 0 THEN getTagNameLoop(buffers, k + 1, FALSE, tagName)
  ELSE IF isTagNameByte(At(Head(buffers), k))
       THEN getTagNameLoop(buffers, k + 1, skipFirst,
                           Append(tagName, toLowerCase(At(Head(buffers), k))))
  ELSE tagName

getTagName(c) == getTagNameLoop(c.buffers, 0, TRUE, <<>>)

\* testRawEnd pushes the bytes up to index onto buffers before it splits them.
testRawEnd(c, buffer, offset, index) ==
  IF c.rawEndPattern = "null"
     \/ ~compareBuffers(c.lastBytes, PatternBytes(c.rawEndPattern))
  THEN [matched |-> FALSE, buffers |-> c.buffers, content |-> <<>>, tag |-> <<>>]
  ELSE LET pushed == Append(c.buffers, subarray(buffer, offset, index + 1))
           combined == Concat(pushed)
           splitIndex == Len(combined) - Len(PatternBytes(c.rawEndPattern))
       IN [matched |-> TRUE,
           buffers |-> pushed,
           content |-> subarray(combined, 0, splitIndex),
           tag |-> subarray(combined, splitIndex, Len(combined))]

(***************************************************************************)
(* _transform (src/lib/index.ts:89-237).  scanByte is one iteration of the *)
(* for loop: the else-if chain on the byte at index i.  It yields the      *)
(* instance, the local currentOffset, and whether the iteration returned   *)
(* from _transform (the deferral of a trailing '<').                       *)
(***************************************************************************)
Continue(c, currentOffset) == [c |-> c, currentOffset |-> currentOffset, returned |-> FALSE]

\* Lines 111-129: the raw end pattern is matched.
rawEnd(c, result, i) ==
  LET c1 == pushToken([c EXCEPT !.buffers = result.buffers], "text", result.content)
      isCommentOrCdata ==
        c.rawEndPattern = "COMMENT_END" \/ c.rawEndPattern = "CDATA_END"
      c2 == IF isCommentOrCdata
            THEN [pushToken(c1, "close", result.tag) EXCEPT
                    !.state = "text", !.buffers = <<>>]
            ELSE [c1 EXCEPT
                    !.state = "open", !.buffers = <<result.tag>>, !.fromRawMode = TRUE]
  IN Continue([c2 EXCEPT !.rawEndPattern = "null"], i + 1)

\* A scanner that never waits for the byte after a trailing '<'.
mustDeferNever(c, buffer, i) == FALSE

\* Lines 130-134: a '<' in text that ends the buffer.
mustDefer(c, buffer, i) ==
  c.state = "text" /\ At(buffer, i) = LT /\ i = Len(buffer) - 1

\* Lines 138-142: a '<' in text that opens a tag.
opensTag(c, buffer, i) ==
  c.state = "text" /\ At(buffer, i) = LT /\ ~isWhitespace(At(buffer, i + 1))

\* A tag opening that forgets the text in front of the '<'.
tagOpenNoPush(c, buffer, currentOffset, i) ==
  Continue(pushState([c EXCEPT !.state = "open", !.tagState = "TagName"], "text"), i)

\* Lines 143-149.
tagOpen(c, buffer, currentOffset, i) ==
  LET c1 == IF i > 0 /\ i - currentOffset > 0
            THEN [c EXCEPT !.buffers = Append(@, subarray(buffer, currentOffset, i))]
            ELSE c
  IN Continue(pushState([c1 EXCEPT !.state = "open", !.tagState = "TagName"], "text"), i)

\* Lines 196-210: an unquoted '>' closes the tag.
tagClose(c, buffer, currentOffset, i) ==
  LET c1 == [c EXCEPT !.buffers = Append(@, subarray(buffer, currentOffset, i + 1)),
                      !.state = "text",
                      !.tagState = "null"]
      c2 == IF c1.fromRawMode
            THEN pushState([c1 EXCEPT !.fromRawMode = FALSE], "close")
            ELSE IF getByteAt(c1, 1) = SLASH
            THEN pushState(c1, "close")
            ELSE pushState([c1 EXCEPT
                              !.rawEndPattern = RAW_TAG_PATTERNS(getTagName(c1))],
                           "open")
  IN Continue(c2, i + 1)

\* An introducer that enters raw mode and keeps the bytes pending.
introducerQuiet(c, buffer, currentOffset, i, endPattern) ==
  Continue([c EXCEPT !.state = "text", !.rawEndPattern = endPattern], currentOffset)

\* Lines 215-219 and 224-228: the window ends with a comment or CDATA introducer.
introducer(c, buffer, currentOffset, i, endPattern) ==
  LET c1 == pushState([c EXCEPT
                         !.buffers = Append(@, subarray(buffer, currentOffset, i + 1))],
                      "open")
  IN Continue([c1 EXCEPT !.state = "text", !.rawEndPattern = endPattern], i + 1)

\* A deferral that returns without calling back.
deferSilent(c, buffer, currentOffset) ==
  [c |-> [c EXCEPT !.pendingBuffer = buffer, !.pendingOffset = currentOffset],
   currentOffset |-> currentOffset,
   returned |-> TRUE]

\* Lines 135-137: stash the buffer and return callback().
defer(c, buffer, currentOffset) ==
  [c |-> [c EXCEPT !.pendingBuffer = buffer,
                   !.pendingOffset = currentOffset,
                   !.callbacks = @ + 1],
   currentOffset |-> currentOffset,
   returned |-> TRUE]

scanByte(c0, buffer, i, currentOffset) ==
  LET byte == At(buffer, i)
      \* Lines 108-109.
      pushed == Append(c0.lastBytes, byte)
      c == [c0 EXCEPT !.lastBytes = IF Len(pushed) > 9 THEN Tail(pushed) ELSE pushed]
  IN
  IF c.rawEndPattern # "null" THEN
    LET result == testRawEnd(c, buffer, currentOffset, i)
    IN IF result.matched THEN rawEnd(c, result, i) ELSE Continue(c, currentOffset)
  ELSE IF mustDefer(c, buffer, i) THEN
    defer(c, buffer, currentOffset)
  ELSE IF opensTag(c, buffer, i) THEN
    tagOpen(c, buffer, currentOffset, i)
  ELSE IF c.tagState = "TagName" /\ isWhitespace(byte) THEN
    Continue([c EXCEPT !.tagState = "AttributeName"], currentOffset)
  ELSE IF c.tagState = "AttributeName" /\ byte = EQUAL THEN
    Continue([c EXCEPT !.tagState = "BeforeAttributeValue"], currentOffset)
  ELSE IF c.tagState = "BeforeAttributeValue" /\ isWhitespace(byte) THEN
    Continue(c, currentOffset)
  ELSE IF c.tagState = "BeforeAttributeValue" /\ byte # GT THEN
    Continue([c EXCEPT !.tagState = "AttributeValue",
                       !.quoteState = IF byte = DQUOTE THEN "Double"
                                      ELSE IF byte = SQUOTE THEN "Single"
                                      ELSE "None"],
             currentOffset)
  ELSE IF c.tagState = "AttributeValue" /\ c.quoteState = "None" /\ isWhitespace(byte) THEN
    Continue([c EXCEPT !.tagState = "AttributeName"], currentOffset)
  ELSE IF c.tagState = "AttributeValue" /\ c.quoteState = "Double" /\ byte = DQUOTE THEN
    Continue([c EXCEPT !.quoteState = "None", !.tagState = "AttributeName"], currentOffset)
  ELSE IF c.tagState = "AttributeValue" /\ c.quoteState = "Single" /\ byte = SQUOTE THEN
    Continue([c EXCEPT !.quoteState = "None", !.tagState = "AttributeName"], currentOffset)
  ELSE IF c.state = "open" /\ byte = GT /\ c.quoteState = "None" THEN
    tagClose(c, buffer, currentOffset, i)
  ELSE IF c.state = "open" /\ compareBuffers(c.lastBytes, COMMENT_START) THEN
    introducer(c, buffer, currentOffset, i, "COMMENT_END")
  ELSE IF c.state = "open" /\ compareBuffers(c.lastBytes, CDATA_START) THEN
    introducer(c, buffer, currentOffset, i, "CDATA_END")
  ELSE Continue(c, currentOffset)

RECURSIVE scanLoop(_, _, _, _)
\* The for loop (line 106) and what follows it (lines 232-236).
scanLoop(c, buffer, i, currentOffset) ==
  IF i < Len(buffer)
  THEN LET r == scanByte(c, buffer, i, currentOffset)
       IN IF r.returned THEN r.c ELSE scanLoop(r.c, buffer, i + 1, r.currentOffset)
  ELSE [c EXCEPT !.buffers = IF currentOffset < Len(buffer)
                             THEN Append(@, subarray(buffer, currentOffset, Len(buffer)))
                             ELSE @,
                 !.callbacks = @ + 1]

\* A _transform that resumes after the stashed '<' instead of at it.
transformAfterStash(c, chunk) ==
  IF c.pendingBuffer # <<>>
  THEN scanLoop([c EXCEPT !.pendingBuffer = <<>>, !.pendingOffset = 0, !.callbacks = 0],
                c.pendingBuffer \o chunk,
                Len(c.pendingBuffer),
                c.pendingOffset)
  ELSE scanLoop([c EXCEPT !.callbacks = 0], chunk, 0, 0)

\* A _transform that emits the pending text when the chunk ends.
transformEager(c, chunk) ==
  LET r == IF c.pendingBuffer # <<>>
           THEN scanLoop([c EXCEPT !.pendingBuffer = <<>>, !.pendingOffset = 0,
                                   !.callbacks = 0],
                         c.pendingBuffer \o chunk,
                         Len(c.pendingBuffer) - 1,
                         c.pendingOffset)
           ELSE scanLoop([c EXCEPT !.callbacks = 0], chunk, 0, 0)
  IN IF r.state = "text" /\ r.rawEndPattern = "null" /\ r.pendingBuffer = <<>>
     THEN pushState(r, "text")
     ELSE r

\* _transform(chunk): lines 94-104 reassemble the stashed buffer and the chunk.
transform(c, chunk) ==
  IF c.pendingBuffer # <<>>
  THEN scanLoop([c EXCEPT !.pendingBuffer = <<>>, !.pendingOffset = 0, !.callbacks = 0],
                c.pendingBuffer \o chunk,
                Len(c.pendingBuffer) - 1,
                c.pendingOffset)
  ELSE scanLoop([c EXCEPT !.callbacks = 0], chunk, 0, 0)

\* A _flush that emits the pending bytes whatever the state.
flushAnyState(c) == [pushState(c, "text") EXCEPT !.ended = TRUE, !.callbacks = 1]

\* A _flush that emits the pending bytes as a Close token.
flushAsClose(c) ==
  [(IF c.state = "text" THEN pushState(c, "close") ELSE c)
     EXCEPT !.ended = TRUE, !.callbacks = 1]

\* _flush (lines 239-245).
flush(c) ==
  [(IF c.state = "text" THEN pushState(c, "text") ELSE c)
     EXCEPT !.ended = TRUE, !.callbacks = 1]

\* The tokens of bytes fed to a new instance as one chunk, then end of stream.
Tokenize(bytes) == flush(transform(NewTokenizer, bytes)).out

(***************************************************************************)
(* The earlier revision of MarkupTokenizer (src/unnamed/part_000).  It has *)
(* the ignoreText option, keeps the last bytes in a ring of 9 slots, knows *)
(* no CDATA section and no fromRawMode flag.  Its character codes and      *)
(* patterns are those above.  Its fields _last, _lastIndex, _lastCount,    *)
(* _prev and _offset are written without the underscore.                   *)
(***************************************************************************)
TEXT_STATE == 0
OPEN_STATE == 1

TAG_NAME_STATE == 1
ATTRIBUTE_NAME_STATE == 2
BEFORE_ATTRIBUTE_VALUE_STATE == 3
ATTRIBUTE_VALUE_STATE == 4

NO_QUOTE == 0
DOUBLE_QUOTE == 1
SINGLE_QUOTE == 2

\* The number of slots of _last.
RingSize == 9

RECURSIVE compareFrom(_, _, _, _)
compareFrom(a, b, i, j) ==
  IF ~(i >= 0 /\ j >= 0) THEN TRUE
  ELSE LET aChar == At(a, i)
           bChar == At(b, j)
           aLower == IF aChar >= 65 /\ aChar <= 90 THEN aChar + 32 ELSE aChar
           bLower == IF bChar >= 65 /\ bChar <= 90 THEN bChar + 32 ELSE bChar
       IN IF aLower # bLower THEN FALSE ELSE compareFrom(a, b, i - 1, j - 1)

compare(a, b) ==
  IF Len(a) < Len(b) THEN FALSE ELSE compareFrom(a, b, Len(a) - 1, Len(b) - 1)

\* new MarkupTokenizer({ ignoreText }): an instance of the earlier revision,
\* with out, the tokens pushed downstream, and ended, the stream-end signal.
NewTokenizer0(ignoreText) ==
  [state |-> TEXT_STATE,
   tagState |-> 0,
   quoteState |-> NO_QUOTE,
   raw |-> "null",
   buffers |-> <<>>,
   ignoreText |-> ignoreText,
   last |-> [k \in 1..RingSize |-> Undefined],
   lastIndex |-> 0,
   lastCount |-> 0,
   prev |-> <<>>,
   offset |-> 0,
   out |-> <<>>,
   ended |-> FALSE]

push0(c, ev, buf) == [c EXCEPT !.out = Append(@, [kind |-> ev, bytes |-> buf])]

\* _pushState
pushState0(c, ev) ==
  IF Len(c.buffers) = 0 THEN c
  ELSE IF c.ignoreText /\ ev = "text" THEN [c EXCEPT !.buffers = <<>>]
  ELSE push0([c EXCEPT !.buffers = <<>>], ev, Concat(c.buffers))

\* _getChar
getChar(c, index) == getByteAtFrom(c.buffers, index, 0)

RECURSIVE getTagFrom(_, _, _, _)
\* The loops of _getTag: j the index of the buffer, k the index in it.
getTagFrom(buffers, j, k, tag) ==
  IF j >= Len(buffers) THEN tag
  ELSE IF k >= Len(buffers[j + 1])
       THEN getTagFrom(buffers, j + 1, 0, tag)
  ELSE LET ch == At(buffers[j + 1], k)
       IN IF isTagNameByte(ch)
          THEN getTagFrom(buffers, j, k + 1, Append(tag, toLowerCase(ch)))
          ELSE tag

\* _getTag
getTag(c) == getTagFrom(c.buffers, 0, 1, <<>>)

\* A _getLastBytes that reads the slots in array order, not from the oldest.
getLastBytesInPlace(c) ==
  [i \in 1..Min(c.lastCount, RingSize) |-> c.last[i]]

\* _getLastBytes
getLastBytes(c) ==
  LET count == Min(c.lastCount, RingSize)
  IN [i \in 1..count |->
        c.last[((c.lastIndex - count + (i - 1) + RingSize) % RingSize) + 1]]

\* _testRaw pushes the bytes up to index onto buffers before it splits them.
testRaw(c, buf, offset, index) ==
  IF c.raw = "null" \/ ~compare(getLastBytes(c), PatternBytes(c.raw))
  THEN [matched |-> FALSE, buffers |-> c.buffers, content |-> <<>>, tag |-> <<>>]
  ELSE LET pushed == Append(c.buffers, subarray(buf, offset, index + 1))
           buffer == Concat(pushed)
           k == Len(buffer) - Len(PatternBytes(c.raw))
       IN [matched |-> TRUE,
           buffers |-> pushed,
           content |-> subarray(buffer, 0, k),
           tag |-> subarray(buffer, k, Len(buffer))]

\* Lines 111-113 with the option dropped: the Text token of a raw section.
pushRawTextAlways(c, content) == push0(c, "text", content)

\* Lines 111-113: the Text token of a raw section, unless text is ignored.
pushRawText(c, content) == IF ~c.ignoreText THEN push0(c, "text", content) ELSE c

\* _handleTagClose
handleTagClose(c, buf, offset, i) ==
  LET c1 == [c EXCEPT !.buffers = Append(@, subarray(buf, offset, i + 1)),
                      !.state = TEXT_STATE,
                      !.tagState = 0,
                      !.quoteState = NO_QUOTE]
  IN IF getChar(c1, 1) = SLASH
     THEN pushState0(c1, "close")
     ELSE LET tag == getTag(c1)
              c2 == IF tag = NameScript THEN [c1 EXCEPT !.raw = "END_SCRIPT"]
                    ELSE IF tag = NameStyle THEN [c1 EXCEPT !.raw = "END_STYLE"]
                    ELSE IF tag = NameTitle THEN [c1 EXCEPT !.raw = "END_TITLE"]
                    ELSE c1
          IN pushState0(c2, "open")

Step0(c, offset) == [c |-> c, offset |-> offset, returned |-> FALSE]

\* Lines 108-129.
rawBranch0(c, buf, offset, i) ==
  LET parts == testRaw(c, buf, offset, i)
  IN IF ~parts.matched THEN Step0(c, offset)
     ELSE LET c1 == pushRawText([c EXCEPT !.buffers = parts.buffers], parts.content)
              c2 == IF c.raw = "COMMENT_END"
                    THEN push0([c1 EXCEPT !.state = TEXT_STATE, !.buffers = <<>>],
                               "close", parts.tag)
                    ELSE [c1 EXCEPT !.state = OPEN_STATE,
                                    !.tagState = TAG_NAME_STATE,
                                    !.buffers = <<parts.tag>>]
          IN Step0([c2 EXCEPT !.raw = "null"], i + 1)

\* Lines 131-161.
textBranch0(c, buf, offset, i) ==
  IF At(buf, i) # LT THEN Step0(c, offset)
  ELSE IF i = Len(buf) - 1
  THEN [c |-> [c EXCEPT !.prev = buf, !.offset = offset],
        offset |-> offset,
        returned |-> TRUE]
  ELSE LET nextByte == At(buf, i + 1)
       IN IF nextByte # SPACE /\ nextByte # TAB /\ nextByte # LF
             /\ nextByte # FF /\ nextByte # CR
          THEN LET c1 == IF i > offset /\ ~c.ignoreText
                         THEN [c EXCEPT !.buffers = Append(@, subarray(buf, offset, i))]
                         ELSE c
                   c2 == [c1 EXCEPT !.state = OPEN_STATE, !.tagState = TAG_NAME_STATE]
               IN Step0(IF ~c.ignoreText THEN pushState0(c2, "text") ELSE c2, i)
          ELSE Step0(c, offset)

\* Lines 163-226.
openBranch0(c, buf, offset, i) ==
  LET b == At(buf, i)
      space == b = SPACE \/ b = TAB \/ b = LF \/ b = FF \/ b = CR
      closed == Step0(handleTagClose(c, buf, offset, i), i + 1)
  IN
  IF compare(getLastBytes(c), COMMENT_START) THEN
    Step0(pushState0([c EXCEPT
                        !.buffers = Append(@, subarray(buf, offset, i + 1)),
                        !.state = TEXT_STATE,
                        !.raw = "COMMENT_END"],
                     "open"),
          i + 1)
  ELSE IF c.tagState = TAG_NAME_STATE THEN
    IF space THEN Step0([c EXCEPT !.tagState = ATTRIBUTE_NAME_STATE], offset)
    ELSE IF b = GT THEN closed
    ELSE Step0(c, offset)
  ELSE IF c.tagState = ATTRIBUTE_NAME_STATE THEN
    IF b = EQUAL THEN Step0([c EXCEPT !.tagState = BEFORE_ATTRIBUTE_VALUE_STATE], offset)
    ELSE IF b = GT THEN closed
    ELSE Step0(c, offset)
  ELSE IF c.tagState = BEFORE_ATTRIBUTE_VALUE_STATE THEN
    IF space THEN Step0(c, offset)
    ELSE IF b = GT THEN closed
    ELSE Step0([c EXCEPT !.tagState = ATTRIBUTE_VALUE_STATE,
                         !.quoteState = IF b = DQUOTE THEN DOUBLE_QUOTE
                                        ELSE IF b = SQUOTE THEN SINGLE_QUOTE
                                        ELSE NO_QUOTE],
               offset)
  ELSE IF c.tagState = ATTRIBUTE_VALUE_STATE THEN
    IF c.quoteState = NO_QUOTE THEN
      IF space THEN Step0([c EXCEPT !.tagState = ATTRIBUTE_NAME_STATE], offset)
      ELSE IF b = GT THEN closed
      ELSE Step0(c, offset)
    ELSE IF c.quoteState = DOUBLE_QUOTE /\ b = DQUOTE THEN
      Step0([c EXCEPT !.quoteState = NO_QUOTE, !.tagState = ATTRIBUTE_NAME_STATE], offset)
    ELSE IF c.quoteState = SINGLE_QUOTE /\ b = SQUOTE THEN
      Step0([c EXCEPT !.quoteState = NO_QUOTE, !.tagState = ATTRIBUTE_NAME_STATE], offset)
    ELSE Step0(c, offset)
  ELSE Step0(c, offset)

\* One iteration of the for loop (lines 99-227).
scanByte0(c0, buf, i, offset) ==
  LET b == At(buf, i)
      \* Lines 103-105.
      c == [c0 EXCEPT !.last[c0.lastIndex + 1] = b,
                      !.lastIndex = (c0.lastIndex + 1) % RingSize,
                      !.lastCount = IF c0.lastCount < RingSize THEN @ + 1 ELSE @]
  IN IF c.raw # "null" THEN rawBranch0(c, buf, offset, i)
     ELSE IF c.state = TEXT_STATE THEN textBranch0(c, buf, offset, i)
     ELSE IF c.state = OPEN_STATE THEN openBranch0(c, buf, offset, i)
     ELSE Step0(c, offset)

RECURSIVE scanLoop0(_, _, _, _)
\* The for loop (line 99) and what follows it (line 229).
scanLoop0(c, buf, i, offset) ==
  IF i < Len(buf)
  THEN LET r == scanByte0(c, buf, i, offset)
       IN IF r.returned THEN r.c ELSE scanLoop0(r.c, buf, i + 1, r.offset)
  ELSE IF offset < Len(buf) /\ ~c.ignoreText
       THEN [c EXCEPT !.buffers = Append(@, subarray(buf, offset, Len(buf)))]
       ELSE c

\* _transform(buf) of the earlier revision: lines 90-96 reassemble.
transform0(c, buf) ==
  IF c.prev # <<>>
  THEN scanLoop0([c EXCEPT !.prev = <<>>, !.offset = 0],
                 c.prev \o buf, Len(c.prev) - 1, c.offset)
  ELSE scanLoop0(c, buf, 0, 0)

\* _flush of the earlier revision (lines 233-237).
flush0(c) ==
  [(IF c.state = TEXT_STATE /\ ~c.ignoreText THEN pushState0(c, "text") ELSE c)
     EXCEPT !.ended = TRUE]

(***************************************************************************)
(* The state machine: one MarkupTokenizer instance fed the bytes of input  *)
(* in chunks of any size, then told that the stream ended.                 *)
(***************************************************************************)
VARIABLES
  state, tagState, quoteState, rawEndPattern, buffers, lastBytes,
  pendingBuffer, pendingOffset, fromRawMode,
  out,      \* the tokens pushed downstream, in order
  ended,    \* push(null) was called
  callbacks,\* how often the last call invoked its completion callback
  input,    \* the bytes the host stream will deliver
  fed,      \* how many of them were delivered
  plain,    \* an instance of the earlier revision, ignoreText = false
  quiet     \* an instance of the earlier revision, ignoreText = true

vars ==
  <<state, tagState, quoteState, rawEndPattern, buffers, lastBytes,
    pendingBuffer, pendingOffset, fromRawMode, out, ended, callbacks, input, fed,
    plain, quiet>>

This ==
  [state |-> state,
   tagState |-> tagState,
   quoteState |-> quoteState,
   rawEndPattern |-> rawEndPattern,
   buffers |-> buffers,
   lastBytes |-> lastBytes,
   pendingBuffer |-> pendingBuffer,
   pendingOffset |-> pendingOffset,
   fromRawMode |-> fromRawMode,
   out |-> out,
   ended |-> ended,
   callbacks |-> callbacks]

Becomes(c) ==
  /\ state' = c.state
  /\ tagState' = c.tagState
  /\ quoteState' = c.quoteState
  /\ rawEndPattern' = c.rawEndPattern
  /\ buffers' = c.buffers
  /\ lastBytes' = c.lastBytes
  /\ pendingBuffer' = c.pendingBuffer
  /\ pendingOffset' = c.pendingOffset
  /\ fromRawMode' = c.fromRawMode
  /\ out' = c.out
  /\ ended' = c.ended
  /\ callbacks' = c.callbacks

received == SubSeq(input, 1, fed)

InitOn(inputs) ==
  /\ input \in inputs
  /\ fed = 0
  /\ state = NewTokenizer.state
  /\ tagState = NewTokenizer.tagState
  /\ quoteState = NewTokenizer.quoteState
  /\ rawEndPattern = NewTokenizer.rawEndPattern
  /\ buffers = NewTokenizer.buffers
  /\ lastBytes = NewTokenizer.lastBytes
  /\ pendingBuffer = NewTokenizer.pendingBuffer
  /\ pendingOffset = NewTokenizer.pendingOffset
  /\ fromRawMode = NewTokenizer.fromRawMode
  /\ out = NewTokenizer.out
  /\ ended = NewTokenizer.ended
  /\ callbacks = NewTokenizer.callbacks
  /\ plain = NewTokenizer0(FALSE)
  /\ quiet = NewTokenizer0(TRUE)

\* A chunk holds at most MaxChunk bytes, or all the bytes that are left.
MaxChunk == 2

ChunkSizes == {n \in (1..MaxChunk) \cup {Len(input) - fed} : n >= 1 /\ fed + n <= Len(input)}

\* The host delivers the next n bytes as one chunk.
Transform ==
  /\ ~ended
  /\ \E n \in ChunkSizes :
       /\ fed' = fed + n
       /\ Becomes(transform(This, SubSeq(input, fed + 1, fed + n)))
  /\ UNCHANGED <<input, plain, quiet>>

\* The host signals the end of the stream: what was delivered is the whole input.
Flush ==
  /\ ~ended
  /\ Becomes(flush(This))
  /\ UNCHANGED <<input, fed, plain, quiet>>

Next == Transform \/ Flush

\* The fields of the instance of src/lib/index.ts.
fields ==
  <<state, tagState, quoteState, rawEndPattern, buffers, lastBytes,
    pendingBuffer, pendingOffset, fromRawMode, out, ended, callbacks>>

\* The host delivers the next n bytes as one chunk to the two instances of
\* the earlier revision, which differ in the ignoreText option only.
Transform0 ==
  /\ ~plain.ended
  /\ \E n \in ChunkSizes :
       /\ fed' = fed + n
       /\ plain' = transform0(plain, SubSeq(input, fed + 1, fed + n))
       /\ quiet' = transform0(quiet, SubSeq(input, fed + 1, fed + n))
  /\ UNCHANGED <<input, fields>>

\* The host signals the end of the stream to both.
Flush0 ==
  /\ ~plain.ended
  /\ plain' = flush0(plain)
  /\ quiet' = flush0(quiet)
  /\ UNCHANGED <<input, fed, fields>>

Next0 == Transform0 \/ Flush0

\* The whole input was delivered to the earlier revision and its stream ended.
Done0 == plain.ended /\ fed = Len(input)

(***************************************************************************)
(* Inputs: concatenations of at most MaxPieces pieces of a set.            *)
(***************************************************************************)
MaxPieces == 3

Docs(pieces, n) ==
  {Concat(d) : d \in UNION {[1..k -> pieces] : k \in 0..n}}

\* The whole input was delivered and the stream has ended.
Done == ended /\ fed = Len(input)

RECURSIVE Payloads(_)
\* The payloads of tokens, concatenated in emission order.
Payloads(tokens) ==
  IF tokens = <<>> THEN <<>> ELSE Head(tokens).bytes \o Payloads(Tail(tokens))

Token(kind, bytes) == [kind |-> kind, bytes |-> bytes]

IsPrefix(a, b) == Len(a) <= Len(b) /\ SubSeq(b, 1, Len(a)) = a

\* pattern occurs in bytes, letter case ignored.
Contains(bytes, pattern) ==
  \E k \in 0..(Len(bytes) - Len(pattern)) :
    \A j \in 1..Len(pattern) :
      (IF bytes[k + j] >= 65 /\ bytes[k + j] <= 90 THEN bytes[k + j] + 32 ELSE bytes[k + j])
        = pattern[j]

(***************************************************************************)
(* Spec: inputs of single bytes and comment delimiters.                    *)
(***************************************************************************)
\* a, space, <, >, /, ", =, <!--, -->
BytePieces ==
  {<<97>>,
   <<32>>,
   <<60>>,
   <<62>>,
   <<47>>,
   <<34>>,
   <<61>>,
   <<60, 33, 45, 45>>,
   <<45, 45, 62>>}

Init == InitOn(Docs(BytePieces, MaxPieces))

Spec == Init /\ [][Next]_vars

\* The input is not cut off inside a tag or a raw section: scanned as one
\* chunk it leaves the scanner in text mode with no raw terminator awaited.
WellFormed(bytes) ==
  LET c == transform(NewTokenizer, bytes)
  IN c.state = "text" /\ c.rawEndPattern = "null"

\* C1: chunk-invariance.  For every well-formed input, whatever the chunks it
\* was delivered in, the tokens emitted through end of stream are the tokens
\* of the same bytes delivered as one chunk.
C1_ChunkInvariance == (Done /\ WellFormed(input)) => out = Tokenize(input)

\* C2: no empty tokens.  Every token pushed downstream, of any kind, at any
\* point of any run, has a payload of at least one byte.
C2_NoEmptyToken == \A k \in 1..Len(out) : Len(out[k].bytes) >= 1

(***************************************************************************)
(* SpecWellFormed: inputs made of whole items: text runs, complete tags    *)
(* and a complete comment.                                                 *)
(***************************************************************************)
\* hi, space="  (text), 2 < 3, <b>, </b>, <a href="x">, <!--c-->, <br/>
WellFormedPieces ==
  {<<104, 105>>,
   <<32, 61, 34>>,
   <<50, 32, 60, 32, 51>>,
   <<60, 98, 62>>,
   <<60, 47, 98, 62>>,
   <<60, 97, 32, 104, 114, 101, 102, 61, 34, 120, 34, 62>>,
   <<60, 33, 45, 45, 99, 45, 45, 62>>,
   <<60, 98, 114, 47, 62>>}

InitWellFormed == InitOn(Docs(WellFormedPieces, MaxPieces))

SpecWellFormed == InitWellFormed /\ [][Next]_vars

\* C3: order preservation.  At every point the payloads of the tokens emitted
\* so far, concatenated in order, are a prefix of the bytes received; and for
\* a well-formed input they are the whole input once the stream has ended.
C3_OrderPreservation ==
  /\ IsPrefix(Payloads(out), received)
  /\ Done => Payloads(out) = input

(***************************************************************************)
(* SpecBasic: text runs without '<' and tags without quotes or introducer, *)
(* none of them named script, style or title.                              *)
(***************************************************************************)
\* hi, >, <a>, </a>, <a b=c>, <>, </>, <br/>
BasicPieces ==
  {<<104, 105>>,
   <<62>>,
   <<60, 97, 62>>,
   <<60, 47, 97, 62>>,
   <<60, 97, 32, 98, 61, 99, 62>>,
   <<60, 62>>,
   <<60, 47, 62>>,
   <<60, 98, 114, 47, 62>>}

\* <constructor>
NameConstructorTag == <<60, 99, 111, 110, 115, 116, 114, 117, 99, 116, 111, 114, 62>>

\* A tag whose name is a property every object inherits, then one piece.
PrototypeDocs == {NameConstructorTag \o p : p \in BasicPieces}

InitBasic == InitOn(Docs(BasicPieces, MaxPieces) \cup PrototypeDocs)

SpecBasic == InitBasic /\ [][Next]_vars

\* The index of the first byte of bytes that satisfies Test, or Len(bytes) + 1.
FirstIndex(bytes, Test(_)) ==
  IF \E k \in 1..Len(bytes) : Test(bytes[k])
  THEN CHOOSE k \in 1..Len(bytes) : Test(bytes[k]) /\ \A j \in 1..(k - 1) : ~Test(bytes[j])
  ELSE Len(bytes) + 1

IsGT(byte) == byte = GT
IsLT(byte) == byte = LT

RECURSIVE BasicTokens(_)
\* What C4 says the tokens of such an input are: one token per tag, from its
\* '<' through its first '>', Close when it starts with "</" and Open
\* otherwise, and one Text token per run between tags.
BasicTokens(bytes) ==
  IF bytes = <<>> THEN <<>>
  ELSE IF Head(bytes) = LT
  THEN LET k == FirstIndex(bytes, IsGT)
       IN <<Token(IF Len(bytes) >= 2 /\ bytes[2] = SLASH THEN "close" ELSE "open",
                  SubSeq(bytes, 1, k))>>
            \o BasicTokens(SubSeq(bytes, k + 1, Len(bytes)))
  ELSE LET k == FirstIndex(bytes, IsLT)
       IN <<Token("text", SubSeq(bytes, 1, k - 1))>>
            \o BasicTokens(SubSeq(bytes, k, Len(bytes)))

\* C4: basic tag/text tokenization.  For an input of text runs and plain
\* tags, the tokens emitted through end of stream are exactly one Open or
\* Close token per tag and one Text token per non-empty run between tags.
C4_BasicTokens == Done => out = BasicTokens(input)

(***************************************************************************)
(* SpecComment: one comment or CDATA section, introducer + body + closer,  *)
(* with a body of at most MaxBody pieces that does not hold the closer.    *)
(***************************************************************************)
MaxBody == 2

\* a, <, >, -, ], space
BodyPieces ==
  {<<97>>,
   <<60>>,
   <<62>>,
   <<45>>,
   <<93>>,
   <<32>>}

Sections ==
  {[intro |-> COMMENT_START, body |-> b, closer |-> COMMENT_END] :
     b \in {d \in Docs(BodyPieces, MaxBody) : ~Contains(d, COMMENT_END)}}
  \cup
  {[intro |-> CDATA_START, body |-> b, closer |-> CDATA_END] :
     b \in {d \in Docs(BodyPieces, MaxBody) : ~Contains(d, CDATA_END)}}

RenderSection(s) == s.intro \o s.body \o s.closer

InitComment == InitOn({RenderSection(s) : s \in Sections})

SpecComment == InitComment /\ [][Next]_vars

\* C5: comment and CDATA tokenization.  For a section whose body does not
\* hold the closer, whatever the chunks, the tokens emitted through end of
\* stream are exactly Open with the introducer, Text with the body and Close
\* with the closer.
C5_Section ==
  Done =>
    \A s \in Sections :
      input = RenderSection(s) =>
        out = <<Token("open", s.intro), Token("text", s.body), Token("close", s.closer)>>

(***************************************************************************)
(* SpecRawText: one script, style or title element: an opening tag with an *)
(* attribute list, a non-empty body without the terminator, a closing tag. *)
(***************************************************************************)
RawNames == {NameScript, NameStyle, NameTitle}

\* (none), a=">", a="<!--"
AttrLists ==
  {<<>>,
   <<32, 97, 61, 34, 62, 34>>,
   <<32, 97, 61, 34, 60, 33, 45, 45, 34>>}
\* x, <, ">
RawBodyPieces ==
  {<<120>>,
   <<60>>,
   <<34, 62>>}

RawElements ==
  [name : RawNames,
   attrs : AttrLists,
   body : {d \in Docs(RawBodyPieces, MaxBody) :
             d # <<>> /\ \A n \in RawNames : ~Contains(d, <<LT, SLASH>> \o n)}]

OpeningTag(e) == <<LT>> \o e.name \o e.attrs \o <<GT>>
ClosingTag(e) == <<LT, SLASH>> \o e.name \o <<GT>>
RenderElement(e) == OpeningTag(e) \o e.body \o ClosingTag(e)

InitRawText == InitOn({RenderElement(e) : e \in RawElements})

SpecRawText == InitRawText /\ [][Next]_vars

\* C6: raw-text elements.  For a script, style or title element with any
\* attribute list and a non-empty body, whatever the chunks, the tokens
\* emitted through end of stream are exactly Open with the whole opening tag,
\* Text with the body and Close with the closing tag.
C6_RawElement ==
  Done =>
    \A e \in RawElements :
      input = RenderElement(e) =>
        out = <<Token("open", OpeningTag(e)), Token("text", e.body),
                Token("close", ClosingTag(e))>>

(***************************************************************************)
(* SpecCase: a script, style or title element, or a CDATA section, with    *)
(* the letters of its opening name, of its terminator and of the CDATA     *)
(* introducer in lower, upper or mixed case.                               *)
(***************************************************************************)
FoldByte(byte) == IF byte >= 65 /\ byte <= 90 THEN byte + 32 ELSE byte
RaiseByte(byte) == IF byte >= 97 /\ byte <= 122 THEN byte - 32 ELSE byte

Recase(bytes, how) ==
  [k \in 1..Len(bytes) |->
     CASE how = "lower" -> FoldByte(bytes[k])
       [] how = "upper" -> RaiseByte(bytes[k])
       [] how = "mixed" -> IF k % 2 = 1 THEN RaiseByte(bytes[k]) ELSE FoldByte(bytes[k])]

Casings == {"lower", "upper", "mixed"}

\* <B>, x<I>
CaseBodies ==
  {<<60, 66, 62>>,
   <<120, 60, 73, 62>>}

CaseElements ==
  [kind : {"element"}, name : RawNames, open : Casings, close : Casings, body : CaseBodies]
  \cup
  [kind : {"cdata"}, name : {CDATA_START}, open : Casings, close : {"lower"}, body : CaseBodies]

RenderCase(e) ==
  IF e.kind = "element"
  THEN <<LT>> \o Recase(e.name, e.open) \o <<GT>> \o e.body
         \o <<LT, SLASH>> \o Recase(e.name, e.close) \o <<GT>>
  ELSE Recase(e.name, e.open) \o e.body \o CDATA_END

\* The same element as the source spells it: a lower-case name, "<![CDATA[".
Canonical(e) ==
  IF e.kind = "element"
  THEN [e EXCEPT !.open = "lower", !.close = "lower"]
  ELSE [e EXCEPT !.open = "upper"]

InitCase == InitOn({RenderCase(e) : e \in CaseElements})

SpecCase == InitCase /\ [][Next]_vars

\* The number, kinds and byte boundaries of tokens.
Shape(tokens) == [k \in 1..Len(tokens) |-> <<tokens[k].kind, Len(tokens[k].bytes)>>]

\* C7: case-insensitive raw-mode matching.  Whatever the letter case of the
\* opening name, of the terminator or of the CDATA introducer, and whatever
\* the chunks, the tokens emitted through end of stream have the number,
\* kinds and byte boundaries of the tokens of the canonical spelling, and
\* their payloads are the bytes of the input, in its own casing.
C7_CaseInsensitive ==
  Done =>
    \A e \in CaseElements :
      input = RenderCase(e) =>
        /\ Shape(out) = Shape(Tokenize(RenderCase(Canonical(e))))
        /\ Payloads(out) = input

\* An element whose opening name and terminator are not in lower case was
\* tokenized into Open, Text (its body, markup included) and Close.
C7_Witness ==
  /\ Done
  /\ \E e \in CaseElements :
       /\ e.kind = "element" /\ e.open = "mixed" /\ e.close = "upper"
       /\ input = RenderCase(e)
       /\ Len(out) = 3
       /\ out[1].kind = "open"
       /\ out[2] = Token("text", e.body)
       /\ out[3].kind = "close"

(***************************************************************************)
(* SpecText: text with loose angle brackets and every whitespace byte,     *)
(* also after an empty comment followed by " =", which leaves tagState and *)
(* the window dirty in text mode.                                          *)
(***************************************************************************)
\* <, space, TAB, LF, FF, CR, >, a, <!----> =
TextPieces ==
  {<<60>>,
   <<32>>,
   <<9>>,
   <<10>>,
   <<12>>,
   <<13>>,
   <<62>>,
   <<97>>,
   <<60, 33, 45, 45, 45, 45, 62, 32, 61>>}

InitText == InitOn(Docs(TextPieces, MaxPieces))

SpecText == InitText /\ [][Next]_vars

IsSpaceByte(byte) == byte \in {SPACE, TAB, LF, FF, CR}

\* No '<' of bytes is followed by a byte that is not whitespace.
NoTagStart(bytes) ==
  \A k \in 1..Len(bytes) : bytes[k] = LT => (k = Len(bytes) \/ IsSpaceByte(bytes[k + 1]))

\* In a step that delivers a chunk: the chunk, and the bytes the call scans,
\* which start at the stashed '<' when the previous call deferred.
Chunk == SubSeq(input, fed + 1, fed')
Scanned == (IF pendingBuffer # <<>> THEN <<LT>> ELSE <<>>) \o Chunk

\* The bytes received and not yet emitted: the pending byte ranges, then the
\* stashed buffer from its offset on.
Unemitted == Concat(buffers) \o subarray(pendingBuffer, pendingOffset, Len(pendingBuffer))

\* C8: a '<' scanned in text mode and followed by a whitespace byte, in the
\* same chunk or as the first byte of the next one, does not switch the mode
\* to TagOpen and ends no token; neither does a '>' scanned in text mode.  The
\* bytes stay in the current text segment.
C8_LiteralAngle ==
  [][(fed' > fed /\ state = "text" /\ rawEndPattern = "null" /\ NoTagStart(Scanned))
       => /\ state' = "text"
          /\ rawEndPattern' = "null"
          /\ out' = out
          /\ Unemitted' = Unemitted \o Chunk]_vars

\* A chunk ended with '<', the next one began with a whitespace byte, and
\* both bytes are in the pending text segment, after a '>' and with nothing
\* emitted.
C8_Witness ==
  /\ fed >= 3
  /\ input[fed - 2] = GT /\ input[fed - 1] = LT /\ IsSpaceByte(input[fed])
  /\ state = "text"
  /\ pendingBuffer = <<>>
  /\ out = <<>>
  /\ buffers = <<<<GT>>, <<LT, input[fed]>>>>

(***************************************************************************)
(* SpecAttr: a tag with an attribute, quotes, and comment delimiters.      *)
(***************************************************************************)
\* <a b=, ", ', >, x, space, <!--, -->
AttrPieces ==
  {<<60, 97, 32, 98, 61>>,
   <<34>>,
   <<39>>,
   <<62>>,
   <<120>>,
   <<32>>,
   <<60, 33, 45, 45>>,
   <<45, 45, 62>>}

InitAttr == InitOn(Docs(AttrPieces, MaxPieces))

SpecAttr == InitAttr /\ [][Next]_vars

InQuotedValue ==
  state = "open" /\ tagState = "AttributeValue" /\ quoteState \in {"Double", "Single"}

ClosingQuote == IF quoteState = "Double" THEN DQUOTE ELSE SQUOTE

\* C9: quoted attribute values.  Inside a double (single) quoted value every
\* byte other than the matching quote is literal: it emits no token, does not
\* close the tag and leaves mode, sub-state and quote state as they are; the
\* matching quote alone returns to AttributeName with no quote.
C9_QuotedValue ==
  [][(fed' > fed /\ InQuotedValue)
       => /\ (\A k \in 1..Len(Chunk) : Chunk[k] # ClosingQuote)
               => /\ out' = out
                  /\ state' = "open"
                  /\ tagState' = "AttributeValue"
                  /\ quoteState' = quoteState
          /\ Chunk = <<ClosingQuote>>
               => /\ out' = out
                  /\ state' = "open"
                  /\ tagState' = "AttributeName"
                  /\ quoteState' = "None"]_vars

(***************************************************************************)
(* SpecSelfClose: tags that end with "/>", alone and after other markup.   *)
(***************************************************************************)
\* <a/>, <br/>
ShortTags ==
  {<<60, 97, 47, 62>>,
   <<60, 98, 114, 47, 62>>}

\* ... and <img src="a.jpg"/>
SelfClosingTags ==
  ShortTags \cup
  {<<60, 105, 109, 103, 32, 115, 114, 99, 61, 34, 97, 46, 106, 112, 103, 34, 47, 62>>}

\* <!---->, >, x
MarkupPieces ==
  {<<60, 33, 45, 45, 45, 45, 62>>,
   <<62>>,
   <<120>>}

\* <title>x</title
TitleUnclosed == <<60, 116, 105, 116, 108, 101, 62, 120, 60, 47, 116, 105, 116, 108, 101>>

\* A title element whose closing tag is ended by an empty comment or by '>',
\* then one self-closing tag.
AfterTitle == {TitleUnclosed \o m \o t : m \in MarkupPieces, t \in SelfClosingTags}

InitSelfClose ==
  InitOn(Docs(ShortTags \cup MarkupPieces, MaxPieces) \cup SelfClosingTags \cup AfterTitle)

SpecSelfClose == InitSelfClose /\ [][Next]_vars

\* bytes are a tag with no '/' at index 1 that ends with "/>".
SelfClosing(bytes) ==
  /\ Len(bytes) >= 3
  /\ bytes[1] = LT
  /\ bytes[2] # SLASH
  /\ bytes[Len(bytes) - 1] = SLASH
  /\ bytes[Len(bytes)] = GT

\* C10: no self-closing semantics.  A tag with no '/' at index 1 that ends
\* with "/>" is emitted as one Open token holding all its bytes, and no Close
\* token is emitted for it.
C10_NoSelfClosing ==
  /\ \A k \in 1..Len(out) : out[k].kind = "close" => ~SelfClosing(out[k].bytes)
  /\ (Done /\ input \in SelfClosingTags) => out = <<Token("open", input)>>

\* A token that holds a tag: other than Text, from '<' through '>'.
IsTagToken(t) ==
  /\ t.kind # "text"
  /\ Len(t.bytes) >= 2
  /\ t.bytes[1] = LT
  /\ t.bytes[Len(t.bytes)] = GT

\* C11: Open/Close classification.  A tag completed by an unquoted '>' is
\* emitted as Close if it is the terminator tag scanned after raw mode (whose
\* byte at index 1 is '/') or if its byte at index 1 is '/', and as Open
\* otherwise, whatever input came before it; and fromRawMode is set only while
\* the terminator tag it was set for is being scanned.
C11_Classification ==
  /\ \A k \in 1..Len(out) :
       IsTagToken(out[k]) => (out[k].kind = "close" <=> out[k].bytes[2] = SLASH)
  /\ fromRawMode => state = "open"

(***************************************************************************)
(* SpecIgnore: the earlier revision, with and without ignoreText, on text, *)
(* tags, a comment and a script element.                                   *)
(***************************************************************************)
\* hi, <b>, </b>, space <, >
IgnorePieces ==
  {<<104, 105>>,
   <<60, 98, 62>>,
   <<60, 47, 98, 62>>,
   <<32, 60>>,
   <<62>>}

\* <!--c-->, <script>x</script>, <a b="c">
RawSections ==
  {<<60, 33, 45, 45, 99, 45, 45, 62>>,
   <<60, 115, 99, 114, 105, 112, 116, 62, 120, 60, 47, 115, 99, 114, 105, 112, 116, 62>>,
   <<60, 97, 32, 98, 61, 34, 99, 34, 62>>}

\* Text or nothing, then a comment, a script element or a tag with a quoted
\* value, then one piece or nothing.
AroundRaw ==
  {a \o r \o z : a \in {<<>>, <<104, 105>>}, r \in RawSections,
                 z \in IgnorePieces \cup {<<>>}}

InitIgnore == InitOn(Docs(IgnorePieces, MaxPieces) \cup AroundRaw)

SpecIgnore == InitIgnore /\ [][Next0]_vars

\* C12: text suppression.  With ignoreText = true no token of kind "text" is
\* ever pushed downstream, whatever the input and the chunks, the content of
\* comments and script bodies and the final flush included.
C12_NoTextToken == \A k \in 1..Len(quiet.out) : quiet.out[k].kind # "text"

\* The whole of a document with text, a comment and a script body was
\* delivered and the stream ended: the other instance emitted Text tokens for
\* it, this one emitted its tags.
C12_Witness ==
  /\ Done0
  /\ quiet.ended
  /\ Len(quiet.out) >= 3
  /\ \E k \in 1..Len(plain.out) :
       plain.out[k].kind = "text" /\ Len(plain.out[k].bytes) >= 1
  /\ Contains(input, COMMENT_START)

RECURSIVE NoText(_)
\* tokens without its Text tokens.
NoText(tokens) ==
  IF tokens = <<>> THEN <<>>
  ELSE IF Head(tokens).kind = "text" THEN NoText(Tail(tokens))
  ELSE <<Head(tokens)>> \o NoText(Tail(tokens))

\* C13: text suppression only removes Text tokens.  On the same input and
\* the same chunks, the tokens emitted with ignoreText = true are the tokens
\* emitted with ignoreText = false without the Text tokens: the same Open and
\* Close tokens with the same payloads.
C13_OnlyTextRemoved == quiet.out = NoText(plain.out)

(***************************************************************************)
(* The end of the stream (_flush of src/lib/index.ts).                     *)
(***************************************************************************)
\* This step is the call of _flush.
Finalizes == ~ended /\ ended'

\* C14: finalize in text mode.  When the stream ends in text mode with no raw
\* terminator awaited, the bytes received and not yet emitted, those of the
\* pending byte ranges and those of the stashed buffer from its offset on,
\* are emitted as one final Text token: none is lost.
C14_FinalizeText ==
  [][(Finalizes /\ state = "text" /\ rawEndPattern = "null")
       => out' = IF Unemitted = <<>> THEN out
                 ELSE Append(out, Token("text", Unemitted))]_vars

\* C15: finalize in raw mode.  When the stream ends while a raw terminator is
\* still awaited, finalize emits no token for the raw content scanned so far.
C15_FinalizeRaw ==
  [][(Finalizes /\ rawEndPattern # "null") => out' = out]_vars

\* C16: finalize in tag mode.  When the stream ends while a tag is open, an
\* unclosed quoted attribute value included, finalize emits no token and the
\* tokens emitted before the partial tag stay as they were.
C16_FinalizeOpen ==
  [][(Finalizes /\ state = "open") => (out' = out /\ ended')]_vars

\* The stream ended inside a quoted attribute value, after a Text token was
\* emitted: the bytes of the partial tag are still pending and the tokens
\* are those emitted before it.
C16_Witness ==
  /\ Done
  /\ state = "open"
  /\ tagState = "AttributeValue"
  /\ quoteState = "Double"
  /\ buffers # <<>>
  /\ Len(out) >= 1
  /\ Payloads(out) \o Concat(buffers) = input

\* C17: the finalize protocol.  Finalize emits at most one token, of kind
\* Text, and signals the end of the stream; once the end is signalled it
\* stays signalled and no token is emitted.
C17_FinalizeProtocol ==
  [][/\ Finalizes =>
          \/ out' = out
          \/ /\ Len(out') = Len(out) + 1
             /\ SubSeq(out', 1, Len(out)) = out
             /\ out'[Len(out')].kind = "text"
     /\ ended => (ended' /\ out' = out)]_vars

\* The stream ended in text mode and the last token is the Text token that
\* finalize emitted for the pending bytes.
C17_Witness ==
  /\ Done
  /\ state = "text"
  /\ rawEndPattern = "null"
  /\ buffers = <<>>
  /\ Len(out) >= 2
  /\ out[Len(out)].kind = "text"
  /\ input[Len(input)] # GT
  /\ Payloads(out) = input

(***************************************************************************)
(* What a call of _transform keeps (src/lib/index.ts).                     *)
(***************************************************************************)
\* C19: byte conservation.  After every call of _transform, the payloads of
\* the tokens emitted so far, then the pending byte ranges, then the stashed
\* buffer from its offset on, are exactly the bytes received so far: no gap,
\* no overlap, no duplication.
C19_ByteConservation == ~ended => Payloads(out) \o Unemitted = received

\* Markup, text and a '<' were received in more than one chunk: tokens were
\* emitted, bytes are pending and the last chunk, which ends with the '<',
\* is stashed.
C19_Witness ==
  /\ ~ended
  /\ fed = Len(input)
  /\ Len(out) >= 2
  /\ buffers # <<>>
  /\ pendingBuffer # <<>>
  /\ pendingOffset < Len(pendingBuffer) - 1

\* The instance after the bytes received so far, had they come as one chunk.
AsOneChunk(bytes) == transform(NewTokenizer, bytes)

\* C20: the deferral protocol.  A call of _transform ends with a stashed
\* buffer exactly if the last byte scanned is a '<' met in text mode with no
\* raw terminator awaited.  Whenever a buffer is stashed its last byte is
\* '<', the mode is text, no raw terminator is awaited and the offset is at
\* most the index of that '<'.  The next call takes the stash, resumes at the
\* '<', and the tokens emitted are those of the bytes received as one chunk.
C20_Deferral ==
  /\ [](pendingBuffer # <<>> =>
          /\ pendingBuffer[Len(pendingBuffer)] = LT
          /\ state = "text"
          /\ rawEndPattern = "null"
          /\ pendingOffset >= 0
          /\ pendingOffset <= Len(pendingBuffer) - 1)
  /\ [][fed' > fed =>
          /\ pendingBuffer' # <<>> <=>
               (input[fed'] = LT /\ state' = "text" /\ rawEndPattern' = "null")
          /\ pendingBuffer' # <<>> =>
               pendingBuffer' = (IF pendingBuffer # <<>> THEN pendingBuffer ELSE <<>>) \o Chunk
          /\ pendingBuffer # <<>> =>
               /\ out' = AsOneChunk(SubSeq(input, 1, fed')).out
               /\ state' = AsOneChunk(SubSeq(input, 1, fed')).state
               /\ rawEndPattern' = AsOneChunk(SubSeq(input, 1, fed')).rawEndPattern]_vars

\* A chunk ended with '<' in text mode and was stashed; the next call
\* scanned the '<' again (the byte before it is no '<', yet the window holds
\* it twice), which opened a tag and emitted the text in front of it.
C20_Witness ==
  /\ fed >= 3
  /\ input[fed - 1] = LT
  /\ input[fed - 2] # LT
  /\ state = "open"
  /\ pendingBuffer = <<>>
  /\ Len(out) >= 1
  /\ out[Len(out)].kind = "text"
  /\ Len(lastBytes) >= 3
  /\ SubSeq(lastBytes, Len(lastBytes) - 2, Len(lastBytes)) = <<LT, LT, input[fed]>>

\* The values a field can hold.
Bytes == 0..255
TokenKinds == {"text", "open", "close"}
RawEndPatterns == {"null", "END_SCRIPT", "END_STYLE", "END_TITLE", "COMMENT_END",
                   "CDATA_END", "Object"}

IsBytes(bytes) == \A k \in 1..Len(bytes) : bytes[k] \in Bytes

\* C18: totality.  From every reachable state and for every chunk, a call of
\* _transform ends in a state of the instance whose fields hold values of
\* their types (no read outside a buffer reaches a field or a token) and has
\* invoked its completion callback exactly once, at the deferral or at the
\* end of the scan; so does _flush.
C18_Totality ==
  /\ [](/\ state \in {"text", "open"}
        /\ tagState \in {"null", "TagName", "AttributeName", "BeforeAttributeValue",
                         "AttributeValue"}
        /\ quoteState \in {"None", "Double", "Single"}
        /\ rawEndPattern \in RawEndPatterns
        /\ \A k \in 1..Len(buffers) : IsBytes(buffers[k])
        /\ IsBytes(lastBytes) /\ Len(lastBytes) <= 9
        /\ IsBytes(pendingBuffer)
        /\ pendingOffset \in 0..Len(pendingBuffer)
        /\ \A k \in 1..Len(out) : out[k].kind \in TokenKinds /\ IsBytes(out[k].bytes))
  /\ [][(fed' > fed \/ Finalizes) => callbacks' = 1]_vars

\* A call that ended at the deferral point, after it emitted a token: the
\* buffer is stashed and the callback was invoked once.
C18_Witness ==
  /\ pendingBuffer # <<>>
  /\ pendingOffset >= 1
  /\ buffers = <<>>
  /\ Len(out) >= 1
  /\ callbacks = 1
  /\ ~ended

(***************************************************************************)
(* The trailing window (lastBytes of src/lib/index.ts).                    *)
(***************************************************************************)
\* The last n bytes of bytes, or all of them if they are fewer.
LastOf(bytes, n) == SubSeq(bytes, Len(bytes) - Min(Len(bytes), n) + 1, Len(bytes))

\* C21: the trailing window.  After any calls of _transform, whatever the
\* chunks and the deferrals, lastBytes has at most 9 bytes and holds the last
\* 9 bytes received (all of them while fewer than 9 were received): every
\* byte was appended to it exactly once.
C21_TrailingWindow ==
  /\ Len(lastBytes) <= 9
  /\ lastBytes = LastOf(received, 9)

(***************************************************************************)
(* SpecTerminator: a script or title element whose closing tag holds       *)
(* nothing, white space, or an attribute with a quoted '>'.                *)
(***************************************************************************)
\* >, space >, space a=">">, space a='>'>
TerminatorTails ==
  {<<62>>,
   <<32, 62>>,
   <<32, 97, 61, 34, 62, 34, 62>>,
   <<32, 97, 61, 39, 62, 39, 62>>}

TerminatedElements ==
  [name : {NameScript, NameTitle}, body : {<<120>>, <<120, 62>>}, tail : TerminatorTails]

\* <name>
TerminatedOpening(e) == <<LT>> \o e.name \o <<GT>>

\* </name and the tail
TerminatorTag(e) == <<LT, SLASH>> \o e.name \o e.tail

RenderTerminated(e) == TerminatedOpening(e) \o e.body \o TerminatorTag(e)

InitTerminator == InitOn({RenderTerminated(e) : e \in TerminatedElements})

SpecTerminator == InitTerminator /\ [][Next]_vars

\* C22: terminator tag re-injection.  When the byte scanned completes a
\* script, style or title terminator, the state after it is: mode open,
\* sub-state TagName, fromRawMode set, no raw terminator awaited, and the
\* pending bytes are exactly the terminator bytes.  The terminator tag is then
\* scanned as any tag: a '>' inside a quoted attribute value does not close
\* it, and the Close token runs to the first '>' outside quotes.
C22_Reinjection ==
  /\ [][(fed' = fed + 1
         /\ rawEndPattern \in {"END_SCRIPT", "END_STYLE", "END_TITLE"}
         /\ rawEndPattern' = "null")
          => /\ state' = "open"
             /\ tagState' = "TagName"
             /\ fromRawMode'
             /\ buffers' = <<LastOf(SubSeq(input, 1, fed'), Len(PatternBytes(rawEndPattern)))>>]_vars
  /\ [](Done =>
          \A e \in TerminatedElements :
            input = RenderTerminated(e) =>
              out = <<Token("open", TerminatedOpening(e)), Token("text", e.body),
                      Token("close", TerminatorTag(e))>>)

\* C23: text-mode hygiene.  Bytes scanned in text mode change neither
\* tagState nor quoteState, and in text mode with no raw terminator awaited
\* quoteState is None: a tag opened by '<' starts in TagName with no quote,
\* whatever text, comments or CDATA sections came before it.
C23_TextHygiene ==
  /\ []((state = "text" /\ rawEndPattern = "null") => quoteState = "None")
  /\ [][(fed' > fed /\ state = "text" /\ rawEndPattern = "null" /\ NoTagStart(Scanned))
          => (tagState' = tagState /\ quoteState' = quoteState)]_vars

\* bytes hold a tag whose name, letter case ignored, is name: the name
\* follows the '<' and is followed by a byte that cannot be in a name.
HasTagName(bytes, name) ==
  /\ Len(bytes) >= Len(name) + 2
  /\ bytes[1] = LT
  /\ \A k \in 1..Len(name) :
       (IF bytes[k + 1] >= 65 /\ bytes[k + 1] <= 90 THEN bytes[k + 1] + 32
        ELSE bytes[k + 1]) = name[k]
  /\ LET after == bytes[Len(name) + 2]
     IN ~(\/ after \in 48..57 \/ after \in 65..90 \/ after \in 97..122
          \/ after \in {45, 33, 91, 93})

\* The raw terminator that the construct in bytes, an opening tag or an
\* introducer, calls for.
TerminatorFor(bytes) ==
  IF HasTagName(bytes, NameScript) /\ bytes[Len(bytes)] = GT THEN "END_SCRIPT"
  ELSE IF HasTagName(bytes, NameStyle) /\ bytes[Len(bytes)] = GT THEN "END_STYLE"
  ELSE IF HasTagName(bytes, NameTitle) /\ bytes[Len(bytes)] = GT THEN "END_TITLE"
  ELSE IF LastOf(bytes, 4) = COMMENT_START THEN "COMMENT_END"
  ELSE IF Len(bytes) >= 9
          /\ \A k \in 1..9 : FoldByte(LastOf(bytes, 9)[k]) = FoldByte(CDATA_START[k])
       THEN "CDATA_END"
  ELSE "null"

\* C24: raw mode is entered only for the recognized constructs.  The raw
\* terminator is always absent or one of "</script", "</style", "</title",
\* "-->" and "]]>", each of which some input can match.  The byte after which
\* it is set ends an Open token that holds a script, style or title tag, or
\* that ends with an introducer, and the terminator is the matching one; after
\* a tag of any other name closes, the empty name of "<>" included, it
\* stays absent.
C24_RawEntry ==
  /\ [](rawEndPattern \in {"null", "END_SCRIPT", "END_STYLE", "END_TITLE",
                           "COMMENT_END", "CDATA_END"})
  /\ [][(fed' = fed + 1 /\ rawEndPattern = "null" /\ Len(out') = Len(out) + 1
         /\ out'[Len(out')].kind = "open")
          => rawEndPattern' = TerminatorFor(out'[Len(out')].bytes)]_vars
  /\ [][(fed' = fed + 1 /\ rawEndPattern = "null" /\ rawEndPattern' # "null")
          => (Len(out') = Len(out) + 1 /\ out'[Len(out')].kind = "open")]_vars

\* bytes end with pattern, letter case ignored.
EndsWith(bytes, pattern) ==
  /\ Len(bytes) >= Len(pattern)
  /\ \A k \in 1..Len(pattern) :
       FoldByte(bytes[Len(bytes) - Len(pattern) + k]) = FoldByte(pattern[k])

\* Some byte of chunk, scanned after the bytes of window, completes pattern.
Completes(window, chunk, pattern) ==
  \E k \in 1..Len(chunk) : EndsWith(window \o SubSeq(chunk, 1, k), pattern)

\* C25: the raw-mode frame condition.  While a raw terminator is awaited, a
\* chunk none of whose bytes completes it emits no token, is not deferred
\* even if it ends with '<', and leaves state, tagState, quoteState,
\* fromRawMode and rawEndPattern as they are: only the window and the pending
\* byte ranges change.
C25_RawFrame ==
  [][(fed' > fed /\ rawEndPattern # "null"
      /\ ~Completes(lastBytes, Chunk, PatternBytes(rawEndPattern)))
       => /\ out' = out
          /\ pendingBuffer' = <<>>
          /\ state' = state
          /\ tagState' = tagState
          /\ quoteState' = quoteState
          /\ fromRawMode' = fromRawMode
          /\ rawEndPattern' = rawEndPattern
          /\ buffers' = Append(buffers, Chunk)
          /\ lastBytes' = LastOf(lastBytes \o Chunk, 9)]_vars

\* Inside a comment a chunk that ends with '<' was scanned: it is pending
\* raw content, nothing is stashed and the only token is the introducer.
C25_Witness ==
  /\ rawEndPattern = "COMMENT_END"
  /\ fed >= 6
  /\ input[fed] = LT
  /\ pendingBuffer = <<>>
  /\ buffers # <<>>
  /\ Len(out) = 1
  /\ ~ended

(***************************************************************************)
(* SpecIntroducer: a comment or CDATA introducer met in every sub-state of *)
(* a tag: at its start, among its attributes, in an unquoted and in a      *)
(* quoted value.                                                           *)
(***************************************************************************)
\* nothing, <a space, <a b=, <a b= space, <a b=c, <a b=", <a b='c
TagPrefixes ==
  {<<>>,
   <<60, 97, 32>>,
   <<60, 97, 32, 98, 61>>,
   <<60, 97, 32, 98, 61, 32>>,
   <<60, 97, 32, 98, 61, 99>>,
   <<60, 97, 32, 98, 61, 34>>,
   <<60, 97, 32, 98, 61, 39, 99>>}

\* <!--, <![CDATA[, <![cdata[
Introducers ==
  {<<60, 33, 45, 45>>,
   <<60, 33, 91, 67, 68, 65, 84, 65, 91>>,
   <<60, 33, 91, 99, 100, 97, 116, 97, 91>>}

\* nothing, x-->, ]]>, ">
IntroducerTails ==
  {<<>>,
   <<120, 45, 45, 62>>,
   <<93, 93, 62>>,
   <<34, 62>>}

InitIntroducer ==
  InitOn({p \o n \o t : p \in TagPrefixes, n \in Introducers, t \in IntroducerTails})

SpecIntroducer == InitIntroducer /\ [][Next]_vars

\* C26: introducer detection is independent of the tag sub-state.  Whenever
\* a byte is scanned in open mode and the window then ends with "<!--" or
\* "<![CDATA[", letter case ignored, the pending bytes through that byte are
\* emitted as one Open token, the mode becomes text and the raw terminator
\* becomes "-->" or "]]>"; this is so in every tagState and quoteState.
C26_IntroducerAnywhere ==
  [][(fed' = fed + 1 /\ state = "open"
      /\ (EndsWith(lastBytes', COMMENT_START) \/ EndsWith(lastBytes', CDATA_START)))
       => /\ out' = Append(out, Token("open", Concat(buffers) \o Chunk))
          /\ buffers' = <<>>
          /\ state' = "text"
          /\ rawEndPattern' = IF EndsWith(lastBytes', COMMENT_START)
                              THEN "COMMENT_END" ELSE "CDATA_END"]_vars

\* A CDATA introducer ended inside a single-quoted attribute value: the tag
\* was emitted through it as an Open token and "]]>" is awaited, with the
\* quote still open.
C26_Witness ==
  /\ state = "text"
  /\ rawEndPattern = "CDATA_END"
  /\ tagState = "AttributeValue"
  /\ quoteState = "Single"
  /\ Len(out) = 1
  /\ out[1].kind = "open"
  /\ EndsWith(out[1].bytes, CDATA_START)
  /\ Len(out[1].bytes) > Len(CDATA_START)

\* C27: text is buffered until its run ends.  For input with no '<', no call
\* of _transform emits a token, whatever the chunks, and _flush emits one Text
\* token that holds the whole input.  In general a call that scans no '<' and
\* starts with no raw terminator awaited emits no Text token before another
\* token: the end of a chunk alone never emits text.
C27_TextBuffered ==
  /\ []((\A k \in 1..Len(input) : input[k] # LT)
          => /\ ~ended => out = <<>>
             /\ (Done /\ input # <<>>) => out = <<Token("text", input)>>)
  /\ [][(fed' > fed /\ rawEndPattern = "null" /\ \A k \in 1..Len(Scanned) : Scanned[k] # LT)
          => (Len(out') > Len(out) => out'[Len(out) + 1].kind # "text")]_vars

\* An input with no '<' was received whole in three chunks or more: its
\* bytes are pending and no token was emitted.
C27_Witness ==
  /\ \A k \in 1..Len(input) : input[k] # LT
  /\ fed = Len(input)
  /\ ~ended
  /\ Len(buffers) >= 3
  /\ Concat(buffers) = input
  /\ out = <<>>

(***************************************************************************)
(* SpecRevisions: the two revisions side by side.  The host pipes the same *)
(* chunks into an instance of src/lib/index.ts and into the instances of   *)
(* src/unnamed/part_000, and ends the streams together.                    *)
(***************************************************************************)
\* The next n bytes are delivered as one chunk to every instance.
TransformBoth ==
  /\ ~ended
  /\ ~plain.ended
  /\ \E n \in ChunkSizes :
       /\ fed' = fed + n
       /\ Becomes(transform(This, SubSeq(input, fed + 1, fed + n)))
       /\ plain' = transform0(plain, SubSeq(input, fed + 1, fed + n))
       /\ quiet' = transform0(quiet, SubSeq(input, fed + 1, fed + n))
  /\ UNCHANGED input

\* The end of the stream is signalled to every instance.
FlushBoth ==
  /\ ~ended
  /\ ~plain.ended
  /\ Becomes(flush(This))
  /\ plain' = flush0(plain)
  /\ quiet' = flush0(quiet)
  /\ UNCHANGED <<input, fed>>

NextBoth == TransformBoth \/ FlushBoth

\* Every instance received the whole input and saw the end of the stream.
DoneBoth == Done /\ Done0

\* <title>x</title>, plain text <b>bold</b>, <a href="x">y</a><, <!--comment--><p>, <script>a<b</script>
LongDocs ==
  {<<60, 116, 105, 116, 108, 101, 62, 120, 60, 47, 116, 105, 116, 108, 101, 62>>,
   <<112, 108, 97, 105, 110, 32, 116, 101, 120, 116, 32, 60, 98, 62, 98, 111, 108, 100, 60, 47, 98, 62>>,
   <<60, 97, 32, 104, 114, 101, 102, 61, 34, 120, 34, 62, 121, 60, 47, 97, 62, 60>>,
   <<60, 33, 45, 45, 99, 111, 109, 109, 101, 110, 116, 45, 45, 62, 60, 112, 62>>,
   <<60, 115, 99, 114, 105, 112, 116, 62, 97, 60, 98, 60, 47, 115, 99, 114, 105, 112, 116, 62>>}

\* <!----> ="<b>, <script>x</script a=">">
AfterRaw ==
  {<<60, 33, 45, 45, 45, 45, 62, 32, 61, 34, 60, 98, 62>>,
   <<60, 115, 99, 114, 105, 112, 116, 62, 120, 60, 47, 115, 99, 114, 105, 112, 116, 32, 97, 61, 34, 62, 34, 62>>}

InitRevisions == InitOn(Docs(BytePieces, MaxPieces) \cup LongDocs \cup AfterRaw)

SpecRevisions == InitRevisions /\ [][NextBoth]_vars

\* The input holds the CDATA introducer, in either case.
HasCdata == Contains(input, <<60, 33, 91, 99, 100, 97, 116, 97, 91>>)

\* C28: on an input with no CDATA introducer the two revisions, the earlier
\* one with ignoreText = false, emit the same tokens through the end of the
\* stream, whatever the chunks.
C28_RevisionsAgree == [](DoneBoth /\ ~HasCdata => out = plain.out)

\* Patterns of nine bytes or fewer: the five terminators and introducers of
\* interest, in both cases, and short ones.
WindowPatterns ==
  LET ps == {PatternBytes(n) : n \in RawEndPatterns \ {"null", "Object"}}
            \cup {COMMENT_START, CDATA_START, <<>>, <<LT>>, <<97>>, <<GT>>}
  IN ps \cup {[k \in 1..Len(p) |-> RaiseByte(p[k])] : p \in ps}

\* C29: the ring of the earlier revision and the push/shift array of the
\* later one hold the same window.  The windows start equal; a call that
\* starts with equal windows and rescans a deferred '<' in both revisions
\* or in neither scans the same bytes in both and ends with equal windows;
\* compare and compareBuffers give the same answer on the window for every
\* pattern.
C29_RingWindow ==
  /\ [](fed = 0 => getLastBytes(plain) = lastBytes)
  /\ [][(getLastBytes(plain) = lastBytes /\ (pendingBuffer = <<>>) = (plain.prev = <<>>))
          => getLastBytes(plain') = lastBytes']_vars
  /\ [](\A p \in WindowPatterns :
          /\ compare(getLastBytes(plain), p) = compareBuffers(lastBytes, p)
               \/ getLastBytes(plain) # lastBytes
          /\ compare(getLastBytes(plain), p) = compareBuffers(getLastBytes(plain), p))

\* The ring is full and has wrapped, a deferred '<' was rescanned, and the
\* two windows are the same nine bytes.
C29_Witness ==
  /\ plain.lastCount = RingSize
  /\ plain.lastIndex \in 1..(RingSize - 1)
  /\ fed > RingSize
  /\ \E k \in 2..Len(lastBytes) : lastBytes[k] = LT /\ lastBytes[k - 1] = LT
  /\ Len(lastBytes) = RingSize
  /\ getLastBytes(plain) = lastBytes

====
